---- MODULE Spec2Model ----
(***************************************************************************)
(* Model of the zkvm backend of curve25519-dalek-ng                        *)
(* (src/backend/zkvm): the 16-word AffinePoint, its conversions to and     *)
(* from the extended EdwardsPoint, the host addition primitive as the      *)
(* test module implements it, and the scalar multiplications built on it. *)
(*                                                                         *)
(* Everything under src/backend/zkvm is modelled at its own sizes: 32-bit  *)
(* words split into four little-endian bytes, eight words per coordinate,  *)
(* sixteen per point.  The parts of the crate that live outside that       *)
(* directory (the field, the curve constant d, the basepoint, the native   *)
(* extended addition and the scalar's bit view) are modelled over a small  *)
(* curve of the same shape, -x^2 + y^2 = 1 + d x^2 y^2 over GF(17) with    *)
(* d = -121665/121666 and the basepoint of y = 4/5 and even x, so that     *)
(* the group (20 points) can be enumerated.                                *)
(***************************************************************************)
EXTENDS Integers, Sequences, FiniteSets, TLC

(***************************************************************************)
(* Bounds of the model.                                                    *)
(***************************************************************************)
\* Length of the bit view of a Scalar (256 in the crate).
ScalarBits == 4
\* Longest bit sequence in the specification that lets the two lengths differ.
MaxBits == 3
\* Largest k given to mul_by_pow_2.
MaxK == 3
\* Input buffers: byte 0 of a coordinate ranges over 0..MaxLowByte, byte 1
\* over 0..MaxMidByte and the top word over 0..MaxHighWord.
MaxLowByte == 18
MaxMidByte == 1
MaxHighWord == 1
\* On-curve input buffers: a coordinate v is encoded as v + j*P, j <= MaxAlias.
MaxAlias == 1
\* Non-normalized inputs: projective denominators 1..MaxZ.
MaxZ == 2
\* Longest argument sequences of the multiscalar operation.
MaxMulti == 2

(***************************************************************************)
(* The field (crate::field, outside src/backend/zkvm).                     *)
(***************************************************************************)
\* The field modulus (2^255 - 19 in the crate).
P == 17

\* FieldElement::one().
FieldElement_one == 1

FAdd(x, y) == (x + y) % P
FSub(x, y) == (x - y + P) % P
FMul(x, y) == (x * y) % P

RECURSIVE FPow(_, _)
FPow(x, n) == IF n = 0 THEN 1 ELSE FMul(x, FPow(x, n - 1))

\* FieldElement::invert: z^(p-2), so that 0 inverts to 0.
invert(z) == FPow(z, P - 2)

\* FieldElement::from_bytes: the little-endian integer of the bytes from
\* position j on, reduced.
RECURSIVE LeValue(_, _)
LeValue(bytes, j) ==
    IF j > Len(bytes) THEN 0 ELSE (bytes[j] + 256 * LeValue(bytes, j + 1)) % P

FieldElement_from_bytes(bytes) == LeValue(bytes, 1)

\* The four little-endian bytes of a value below 2^32.
LeBytes4(v) == <<v % 256, (v \div 256) % 256, (v \div 65536) % 256, (v \div 16777216) % 256>>

Zeros28 == <<0, 0, 0, 0, 0, 0, 0, 0, 0, 0, 0, 0, 0, 0, 0, 0, 0, 0, 0, 0, 0, 0, 0, 0, 0, 0, 0, 0>>

\* FieldElement::to_bytes: the canonical 32-byte little-endian encoding
\* (the reduced value is below 2^32, so bytes 4..31 are zero).
FieldElement_to_bytes(fe) == LeBytes4(fe % P) \o Zeros28

(***************************************************************************)
(* Limb codec (field.rs).                                                  *)
(***************************************************************************)
\* u32::to_le_bytes
to_le_bytes(w) == LeBytes4(w)

\* u32::from_le_bytes
from_le_bytes(bs) == bs[1] + 256 * (bs[2] + 256 * (bs[3] + 256 * bs[4]))

\* bytes[i * 4..(i + 1) * 4].copy_from_slice(&limb.to_le_bytes()) for each limb
LimbBytes(limbs) ==
    to_le_bytes(limbs[1]) \o to_le_bytes(limbs[2]) \o to_le_bytes(limbs[3])
        \o to_le_bytes(limbs[4]) \o to_le_bytes(limbs[5]) \o to_le_bytes(limbs[6])
        \o to_le_bytes(limbs[7]) \o to_le_bytes(limbs[8])

\* From<FieldElemetLimbs32> for FieldElement
FieldElement_from_limbs(limbs) == FieldElement_from_bytes(LimbBytes(limbs))

\* chunks_exact(4) of a 32-byte encoding, each chunk through from_le_bytes.
Chunk(bytes, j) == <<bytes[4 * j - 3], bytes[4 * j - 2], bytes[4 * j - 1], bytes[4 * j]>>

BytesToLimbs(bytes) ==
    <<from_le_bytes(Chunk(bytes, 1)), from_le_bytes(Chunk(bytes, 2)),
      from_le_bytes(Chunk(bytes, 3)), from_le_bytes(Chunk(bytes, 4)),
      from_le_bytes(Chunk(bytes, 5)), from_le_bytes(Chunk(bytes, 6)),
      from_le_bytes(Chunk(bytes, 7)), from_le_bytes(Chunk(bytes, 8))>>

(***************************************************************************)
(* AffinePoint (edwards.rs, constants.rs).                                 *)
(***************************************************************************)
IDENTITY == <<0, 0, 0, 0, 0, 0, 0, 0, 1, 0, 0, 0, 0, 0, 0, 0>>

\* AffinePoint::x, AffinePoint::y
x(limbs) == SubSeq(limbs, 1, 8)
y(limbs) == SubSeq(limbs, 9, 16)

\* Mutant: the assertion only rejects a zero denominator.
IsNormalized_nonzero(value) == value.Z # 0

\* assert_eq!(value.Z, FieldElement::one()) of From<EdwardsPoint> for AffinePoint
IsNormalized(value) == value.Z = FieldElement_one

\* Mutant: the two halves of the buffer are filled the wrong way round.
AffinePoint_from_swapped(value) ==
    BytesToLimbs(FieldElement_to_bytes(value.Y)) \o BytesToLimbs(FieldElement_to_bytes(value.X))

\* From<EdwardsPoint> for AffinePoint, past its assertion.
AffinePoint_from(value) ==
    BytesToLimbs(FieldElement_to_bytes(value.X)) \o BytesToLimbs(FieldElement_to_bytes(value.Y))

\* Mutant: Y is read from the first half of the buffer as well.
EdwardsPoint_from_x_twice(value) ==
    LET X == FieldElement_from_limbs(x(value))
        Y == FieldElement_from_limbs(x(value))
    IN  [X |-> X, Y |-> Y, Z |-> FieldElement_one, T |-> FMul(X, Y)]

\* From<AffinePoint> for EdwardsPoint
EdwardsPoint_from(value) ==
    LET X == FieldElement_from_limbs(x(value))
        Y == FieldElement_from_limbs(y(value))
    IN  [X |-> X, Y |-> Y, Z |-> FieldElement_one, T |-> FMul(X, Y)]

(***************************************************************************)
(* The extended point and its group law (crate::edwards and the serial     *)
(* backend's constants, outside src/backend/zkvm).                         *)
(***************************************************************************)
\* -121665/121666 in the field.
EDWARDS_D == 10

\* The point of y = 4/5 and even x.
ED25519_BASEPOINT_POINT == [X |-> 8, Y |-> 11, Z |-> 1, T |-> 3]

\* EdwardsPoint::identity()
EdwardsPoint_identity == [X |-> 0, Y |-> 1, Z |-> 1, T |-> 0]

\* &EdwardsPoint + &EdwardsPoint: the unified addition through the
\* projective Niels form and the completed point.
EdwardsPoint_add(p, q) ==
    LET PP   == FMul(FAdd(p.Y, p.X), FAdd(q.Y, q.X))
        MM   == FMul(FSub(p.Y, p.X), FSub(q.Y, q.X))
        TT2d == FMul(p.T, FMul(q.T, FMul(2, EDWARDS_D)))
        ZZ   == FMul(p.Z, q.Z)
        ZZ2  == FAdd(ZZ, ZZ)
        cX   == FSub(PP, MM)
        cY   == FAdd(PP, MM)
        cZ   == FAdd(ZZ2, TT2d)
        cT   == FSub(ZZ2, TT2d)
    IN  [X |-> FMul(cX, cT), Y |-> FMul(cY, cZ), Z |-> FMul(cZ, cT), T |-> FMul(cX, cY)]

\* normalize (edwards.rs)
normalize(p) ==
    LET Z_inv == invert(p.Z)
    IN  [X |-> FMul(p.X, Z_inv), Y |-> FMul(p.Y, Z_inv),
         Z |-> FieldElement_one, T |-> FMul(p.T, Z_inv)]

\* syscall_ed_add as the test module supplies it: the new contents of p.
syscall_ed_add(p, q) ==
    LET p_edwards == EdwardsPoint_from(p)
        q_edwards == EdwardsPoint_from(q)
    IN  AffinePoint_from(normalize(EdwardsPoint_add(p_edwards, q_edwards)))

\* Mutant: self's pointer is passed for both operands.
ed_add_assign_self(self, other) == syscall_ed_add(self, self)

\* AffinePoint::ed_add_assign: the new value of self.
ed_add_assign(self, other) == syscall_ed_add(self, other)

\* AffinePoint::double: the new value of self.
double(self) == syscall_ed_add(self, self)

(***************************************************************************)
(* The scalar's bit view (crate::scalar, outside src/backend/zkvm).        *)
(***************************************************************************)
RECURSIVE Pow2(_)
Pow2(n) == IF n = 0 THEN 1 ELSE 2 * Pow2(n - 1)

\* Scalar::bits: the bits of the scalar, least significant first.
bits(s) == [j \in 1..ScalarBits |-> (s \div Pow2(j - 1)) % 2]

Min(m, n) == IF m <= n THEN m ELSE n

\* Mutant: the lock-step iteration stops one pair early.
ZipLen_short(abits, bbits) ==
    IF Min(Len(abits), Len(bbits)) = 0 THEN 0 ELSE Min(Len(abits), Len(bbits)) - 1

\* Number of pairs a.bits().iter().zip(b.bits()) yields.
ZipLen(abits, bbits) == Min(Len(abits), Len(bbits))

(***************************************************************************)
(* Loop bodies.                                                            *)
(***************************************************************************)
\* Mutant: the running value is doubled only when the bit is set.
double_and_add_body_cond_double(r, t, bit) ==
    [res  |-> IF bit = 1 THEN ed_add_assign(r, t) ELSE r,
     temp |-> IF bit = 1 THEN double(t) ELSE t,
     adds |-> IF bit = 1 THEN 2 ELSE 0]

\* Mutant: the running value is accumulated whatever the bit.
double_and_add_body_always_add(r, t, bit) ==
    [res  |-> ed_add_assign(r, t),
     temp |-> double(t),
     adds |-> 2]

\* One iteration of double_and_add (variable_base.rs).
double_and_add_body(r, t, bit) ==
    [res  |-> IF bit = 1 THEN ed_add_assign(r, t) ELSE r,
     temp |-> double(t),
     adds |-> (IF bit = 1 THEN 1 ELSE 0) + 1]

\* Mutant: b's bit accumulates the A-side running value.
double_and_add_base_body_wrong_temp(r, tA, tB, a_bit, b_bit) ==
    LET r1 == IF a_bit = 1 THEN ed_add_assign(r, tA) ELSE r
        r2 == IF b_bit = 1 THEN ed_add_assign(r1, tA) ELSE r1
    IN  [res    |-> r2,
         temp_A |-> double(tA),
         temp_B |-> double(tB),
         adds   |-> (IF a_bit = 1 THEN 1 ELSE 0) + (IF b_bit = 1 THEN 1 ELSE 0) + 2]

\* One iteration of double_and_add_base (vartime_double_base.rs).
double_and_add_base_body(r, tA, tB, a_bit, b_bit) ==
    LET r1 == IF a_bit = 1 THEN ed_add_assign(r, tA) ELSE r
        r2 == IF b_bit = 1 THEN ed_add_assign(r1, tB) ELSE r1
    IN  [res    |-> r2,
         temp_A |-> double(tA),
         temp_B |-> double(tB),
         adds   |-> (IF a_bit = 1 THEN 1 ELSE 0) + (IF b_bit = 1 THEN 1 ELSE 0) + 2]

\* Mutant: the range is taken as 0..=k.
InPowRange_inclusive(n, k) == n <= k

\* The condition of mul_by_pow_2's `for _ in 0..k`.
InPowRange(n, k) == n < k

\* Mutant: the stub returns None.
optional_multiscalar_mul_none(scalars, points) ==
    [outcome |-> "return", value |-> [some |-> FALSE]]

\* Pippenger::optional_multiscalar_mul: unimplemented!().
optional_multiscalar_mul(scalars, points) ==
    [outcome |-> "panic",
     message |-> "not implemented: Pippenger is not supported yet for zkvm"]

(***************************************************************************)
(* Inputs.                                                                 *)
(***************************************************************************)
Fp == 0..(P - 1)

OnCurve(cx, cy) ==
    FSub(FMul(cy, cy), FMul(cx, cx))
        = FAdd(1, FMul(EDWARDS_D, FMul(FMul(cx, cx), FMul(cy, cy))))

CurvePoints == {pt \in Fp \X Fp : OnCurve(pt[1], pt[2])}

\* The extended point (x z : y z : z : x y z) of the affine point pt.
Projective(pt, z) ==
    [X |-> FMul(pt[1], z), Y |-> FMul(pt[2], z), Z |-> z, T |-> FMul(FMul(pt[1], pt[2]), z)]

\* On-curve extended points, normalized (z = 1) and not.
EdwardsInputs == {Projective(pt, z) : pt \in CurvePoints, z \in 1..MaxZ}

\* Normalized extended points as From<AffinePoint> produces them from any
\* buffer: Z = 1 and T = X * Y.
NormalizedInputs == {[X |-> cx, Y |-> cy, Z |-> FieldElement_one, T |-> FMul(cx, cy)] :
                        cx \in Fp, cy \in Fp}

Scalars == 0..(Pow2(ScalarBits) - 1)

BitSeqs == UNION {[1..n -> {0, 1}] : n \in 0..MaxBits}

\* Eight-word encodings of one coordinate.
CoordInputs ==
    {<<lo + 256 * mid, 0, 0, 0, 0, 0, 0, hi>> :
        lo \in 0..MaxLowByte, mid \in 0..MaxMidByte, hi \in 0..MaxHighWord}

\* Buffers AffinePoint::from_limbs accepts: any sixteen words.
AffineInputs == {cx \o cy : cx \in CoordInputs, cy \in CoordInputs}

\* Buffers that decode to a point of the curve: the canonical encoding and
\* its aliases v + j * P.
OnCurveAffineInputs ==
    {<<pt[1] + jx * P, 0, 0, 0, 0, 0, 0, 0, pt[2] + jy * P, 0, 0, 0, 0, 0, 0, 0>> :
        pt \in CurvePoints, jx \in 0..MaxAlias, jy \in 0..MaxAlias}

SeqsUpTo(S, n) == UNION {[1..m -> S] : m \in 0..n}

None == [some |-> FALSE]
Some(v) == [some |-> TRUE, value |-> v]

(***************************************************************************)
(* State.                                                                  *)
(***************************************************************************)
VARIABLES
    op,        \* the operation in progress
    pc,        \* "idle", "loop", "converted", "done" or "panic"
    args,      \* the arguments of the call
    self,      \* the receiver's buffer (add_assign, mul_by_pow_2)
    a_bits,    \* scalar.bits() / a.bits()
    b_bits,    \* b.bits()
    i,         \* iterations completed
    res,       \* the accumulator
    temp,      \* double_and_add's running value
    temp_A,    \* double_and_add_base's running values
    temp_B,
    tmp,       \* mul_by_pow_2's copy
    conv,      \* the value between the two conversions of a round trip
    ret,       \* the value returned
    syscalls,  \* calls of syscall_ed_add made
    msg        \* the panic message

vars == <<op, pc, args, self, a_bits, b_bits, i, res, temp, temp_A, temp_B, tmp,
          conv, ret, syscalls, msg>>

Unset == <<>>

Init ==
    /\ op = "none"
    /\ pc = "idle"
    /\ args = Unset
    /\ self = Unset
    /\ a_bits = <<>>
    /\ b_bits = <<>>
    /\ i = 0
    /\ res = Unset
    /\ temp = Unset
    /\ temp_A = Unset
    /\ temp_B = Unset
    /\ tmp = Unset
    /\ conv = Unset
    /\ ret = Unset
    /\ syscalls = 0
    /\ msg = ""

\* The failed assert_eq! of From<EdwardsPoint> for AffinePoint.
Panic(name, a) ==
    /\ op' = name
    /\ args' = a
    /\ pc' = "panic"
    /\ msg' = "assertion failed: left == right"
    /\ UNCHANGED <<self, a_bits, b_bits, i, res, temp, temp_A, temp_B, tmp, conv, ret, syscalls>>

(***************************************************************************)
(* variable_base::mul                                                      *)
(***************************************************************************)
Call_variable_base_mul ==
    /\ pc = "idle"
    /\ \E point \in EdwardsInputs, scalar \in Scalars :
        LET a == [point |-> point, scalar |-> scalar]
        IN  IF IsNormalized(point)
            THEN /\ op' = "variable_base_mul"
                 /\ args' = a
                 /\ pc' = "loop"
                 /\ res' = IDENTITY
                 /\ temp' = AffinePoint_from(point)
                 /\ a_bits' = bits(scalar)
                 /\ i' = 0
                 /\ UNCHANGED <<self, b_bits, temp_A, temp_B, tmp, conv, ret, syscalls, msg>>
            ELSE Panic("variable_base_mul", a)

double_and_add_step ==
    /\ op = "variable_base_mul"
    /\ pc = "loop"
    /\ i < Len(a_bits)
    /\ \E s \in {double_and_add_body(res, temp, a_bits[i + 1])} :
           /\ res' = s.res
           /\ temp' = s.temp
           /\ syscalls' = syscalls + s.adds
    /\ i' = i + 1
    /\ UNCHANGED <<op, pc, args, self, a_bits, b_bits, temp_A, temp_B, tmp, conv, ret, msg>>

variable_base_mul_return ==
    /\ op = "variable_base_mul"
    /\ pc = "loop"
    /\ i = Len(a_bits)
    /\ ret' = EdwardsPoint_from(res)
    /\ pc' = "done"
    /\ UNCHANGED <<op, args, self, a_bits, b_bits, i, res, temp, temp_A, temp_B, tmp, conv,
                   syscalls, msg>>

(***************************************************************************)
(* vartime_double_base::mul                                                *)
(***************************************************************************)
\* mul(a, A, b) with the two bit views given.
DoubleBaseCall(a, abits, A, b, bbits) ==
    LET ar == [a |-> a, A |-> A, b |-> b]
    IN  IF IsNormalized(A)
        THEN /\ op' = "vartime_double_base_mul"
             /\ args' = ar
             /\ pc' = "loop"
             /\ res' = IDENTITY
             /\ temp_A' = AffinePoint_from(A)
             /\ temp_B' = AffinePoint_from(ED25519_BASEPOINT_POINT)
             /\ a_bits' = abits
             /\ b_bits' = bbits
             /\ i' = 0
             /\ UNCHANGED <<self, temp, tmp, conv, ret, syscalls, msg>>
        ELSE Panic("vartime_double_base_mul", ar)

Call_vartime_double_base_mul ==
    /\ pc = "idle"
    /\ \E a \in Scalars, A \in EdwardsInputs, b \in Scalars :
        DoubleBaseCall(a, bits(a), A, b, bits(b))

double_and_add_base_step ==
    /\ op = "vartime_double_base_mul"
    /\ pc = "loop"
    /\ i < ZipLen(a_bits, b_bits)
    /\ \E s \in {double_and_add_base_body(res, temp_A, temp_B, a_bits[i + 1], b_bits[i + 1])} :
           /\ res' = s.res
           /\ temp_A' = s.temp_A
           /\ temp_B' = s.temp_B
           /\ syscalls' = syscalls + s.adds
    /\ i' = i + 1
    /\ UNCHANGED <<op, pc, args, self, a_bits, b_bits, temp, tmp, conv, ret, msg>>

vartime_double_base_mul_return ==
    /\ op = "vartime_double_base_mul"
    /\ pc = "loop"
    /\ i = ZipLen(a_bits, b_bits)
    /\ ret' = EdwardsPoint_from(res)
    /\ pc' = "done"
    /\ UNCHANGED <<op, args, self, a_bits, b_bits, i, res, temp, temp_A, temp_B, tmp, conv,
                   syscalls, msg>>

(***************************************************************************)
(* AffinePoint::add_assign and AffinePoint::mul_by_pow_2                   *)
(***************************************************************************)
Call_add_assign ==
    /\ pc = "idle"
    /\ \E p \in OnCurveAffineInputs \cup {IDENTITY}, rhs \in OnCurveAffineInputs \cup {IDENTITY} :
        /\ op' = "add_assign"
        /\ args' = [self |-> p, rhs |-> rhs]
        /\ self' = ed_add_assign(p, rhs)
    /\ syscalls' = syscalls + 1
    /\ pc' = "done"
    /\ UNCHANGED <<a_bits, b_bits, i, res, temp, temp_A, temp_B, tmp, conv, ret, msg>>

Call_mul_by_pow_2 ==
    /\ pc = "idle"
    /\ \E p \in OnCurveAffineInputs, k \in 0..MaxK :
        /\ op' = "mul_by_pow_2"
        /\ args' = [self |-> p, k |-> k]
        /\ self' = p
        /\ tmp' = p
    /\ i' = 0
    /\ pc' = "loop"
    /\ UNCHANGED <<a_bits, b_bits, res, temp, temp_A, temp_B, conv, ret, syscalls, msg>>

mul_by_pow_2_step ==
    /\ op = "mul_by_pow_2"
    /\ pc = "loop"
    /\ InPowRange(i, args.k)
    /\ tmp' = double(tmp)
    /\ i' = i + 1
    /\ syscalls' = syscalls + 1
    /\ UNCHANGED <<op, pc, args, self, a_bits, b_bits, res, temp, temp_A, temp_B, conv, ret, msg>>

mul_by_pow_2_return ==
    /\ op = "mul_by_pow_2"
    /\ pc = "loop"
    /\ ~InPowRange(i, args.k)
    /\ ret' = tmp
    /\ pc' = "done"
    /\ UNCHANGED <<op, args, self, a_bits, b_bits, i, res, temp, temp_A, temp_B, tmp, conv,
                   syscalls, msg>>

(***************************************************************************)
(* The conversions, each followed by the conversion back.                  *)
(***************************************************************************)
Call_AffinePoint_from ==
    /\ pc = "idle"
    /\ \E value \in EdwardsInputs \cup NormalizedInputs :
        LET a == [value |-> value]
        IN  IF IsNormalized(value)
            THEN /\ op' = "AffinePoint_from"
                 /\ args' = a
                 /\ conv' = AffinePoint_from(value)
                 /\ pc' = "converted"
                 /\ UNCHANGED <<self, a_bits, b_bits, i, res, temp, temp_A, temp_B, tmp, ret,
                                syscalls, msg>>
            ELSE Panic("AffinePoint_from", a)

EdwardsPoint_from_back ==
    /\ op = "AffinePoint_from"
    /\ pc = "converted"
    /\ ret' = EdwardsPoint_from(conv)
    /\ pc' = "done"
    /\ UNCHANGED <<op, args, self, a_bits, b_bits, i, res, temp, temp_A, temp_B, tmp, conv,
                   syscalls, msg>>

Call_EdwardsPoint_from ==
    /\ pc = "idle"
    /\ \E value \in AffineInputs :
        /\ op' = "EdwardsPoint_from"
        /\ args' = [value |-> value]
        /\ conv' = EdwardsPoint_from(value)
    /\ pc' = "converted"
    /\ UNCHANGED <<self, a_bits, b_bits, i, res, temp, temp_A, temp_B, tmp, ret, syscalls, msg>>

AffinePoint_from_back ==
    /\ op = "EdwardsPoint_from"
    /\ pc = "converted"
    /\ IF IsNormalized(conv)
       THEN /\ ret' = AffinePoint_from(conv)
            /\ pc' = "done"
            /\ UNCHANGED msg
       ELSE /\ pc' = "panic"
            /\ msg' = "assertion failed: left == right"
            /\ UNCHANGED ret
    /\ UNCHANGED <<op, args, self, a_bits, b_bits, i, res, temp, temp_A, temp_B, tmp, conv,
                   syscalls>>

(***************************************************************************)
(* Pippenger::optional_multiscalar_mul                                     *)
(***************************************************************************)
Call_optional_multiscalar_mul ==
    /\ pc = "idle"
    /\ \E scalars \in SeqsUpTo(0..1, MaxMulti),
          points \in SeqsUpTo({None, Some(EdwardsPoint_identity), Some(ED25519_BASEPOINT_POINT)},
                              MaxMulti) :
        LET r == optional_multiscalar_mul(scalars, points)
        IN  /\ op' = "optional_multiscalar_mul"
            /\ args' = [scalars |-> scalars, points |-> points]
            /\ IF r.outcome = "panic"
               THEN /\ pc' = "panic"
                    /\ msg' = r.message
                    /\ UNCHANGED ret
               ELSE /\ pc' = "done"
                    /\ ret' = r.value
                    /\ UNCHANGED msg
    /\ UNCHANGED <<self, a_bits, b_bits, i, res, temp, temp_A, temp_B, tmp, conv, syscalls>>

Next ==
    \/ Call_variable_base_mul
    \/ double_and_add_step
    \/ variable_base_mul_return
    \/ Call_vartime_double_base_mul
    \/ double_and_add_base_step
    \/ vartime_double_base_mul_return
    \/ Call_add_assign
    \/ Call_mul_by_pow_2
    \/ mul_by_pow_2_step
    \/ mul_by_pow_2_return
    \/ Call_AffinePoint_from
    \/ EdwardsPoint_from_back
    \/ Call_EdwardsPoint_from
    \/ AffinePoint_from_back
    \/ Call_optional_multiscalar_mul

Spec == Init /\ [][Next]_vars

(***************************************************************************)
(* The specification in which the two bit views may differ in length.      *)
(***************************************************************************)
RECURSIVE BitsValue(_)
BitsValue(bs) == IF bs = <<>> THEN 0 ELSE Head(bs) + 2 * BitsValue(Tail(bs))

Call_vartime_double_base_mul_bits ==
    /\ pc = "idle"
    /\ \E abits \in BitSeqs, A \in EdwardsInputs, bbits \in BitSeqs :
        DoubleBaseCall(BitsValue(abits), abits, A, BitsValue(bbits), bbits)

NextZip ==
    \/ Call_vartime_double_base_mul_bits
    \/ double_and_add_base_step
    \/ vartime_double_base_mul_return

SpecZip == Init /\ [][NextZip]_vars
(***************************************************************************)
(* Reference group law: the affine addition formulas of the twisted        *)
(* Edwards curve and scalar multiplication by halving the multiplier.       *)
(***************************************************************************)
RefInv(z) == CHOOSE w \in Fp : (z * w) % P = 1

RefAdd(p, q) ==
    LET t == (EDWARDS_D * p[1] * q[1] * p[2] * q[2]) % P
    IN  <<((p[1] * q[2] + p[2] * q[1]) * RefInv((1 + t) % P)) % P,
          ((p[2] * q[2] + p[1] * q[1]) * RefInv((1 + P - t) % P)) % P>>

\* n * p by the affine law: twice (n div 2) * p, plus p when n is odd.
RECURSIVE RefMul(_, _)
RefMul(n, p) ==
    IF n = 0 THEN <<0, 1>>
    ELSE IF n % 2 = 0 THEN RefAdd(RefMul(n \div 2, p), RefMul(n \div 2, p))
    ELSE RefAdd(RefMul(n - 1, p), p)

\* The affine point of a normalized extended point, and back.
Aff(e) == <<e.X, e.Y>>
Ext(pt) == [X |-> pt[1], Y |-> pt[2], Z |-> 1, T |-> (pt[1] * pt[2]) % P]

\* The canonical buffer of an affine point.
AffEnc(pt) == <<pt[1], 0, 0, 0, 0, 0, 0, 0, pt[2], 0, 0, 0, 0, 0, 0, 0>>

BasePt == <<8, 11>>

\* A coordinate's eight words hold an integer below the modulus.
IsCanonical(limbs) == limbs[1] < P /\ \A j \in 2..8 : limbs[j] = 0

CanonicalPoint(q) == IsCanonical(SubSeq(q, 1, 8)) /\ IsCanonical(SubSeq(q, 9, 16))

(***************************************************************************)
(* C1: variable_base::mul(P, s) of a normalized on-curve point returns     *)
(* exactly s * P as the reference scalar multiplication computes it.       *)
(***************************************************************************)
C1_SingleBaseCorrect ==
    (op = "variable_base_mul" /\ pc = "done")
        => ret = Ext(RefMul(args.scalar, Aff(args.point)))

C1_Witness ==
    /\ op = "variable_base_mul"
    /\ pc = "done"
    /\ args.scalar = 13
    /\ args.point = ED25519_BASEPOINT_POINT
    /\ ret = Ext(RefMul(13, BasePt))
    /\ ret # args.point

(***************************************************************************)
(* C2: vartime_double_base::mul(a, A, b) of a normalized on-curve point A  *)
(* returns exactly a * A + b * B, B the basepoint.                         *)
(***************************************************************************)
C2_DoubleBaseCorrect ==
    (op = "vartime_double_base_mul" /\ pc = "done")
        => ret = Ext(RefAdd(RefMul(args.a, Aff(args.A)), RefMul(args.b, BasePt)))

C2_Witness ==
    /\ op = "vartime_double_base_mul"
    /\ pc = "done"
    /\ args.a = 11
    /\ args.b = 6
    /\ args.A = Ext(RefMul(3, BasePt))
    /\ ret = Ext(RefMul(39, BasePt))
    /\ syscalls = 13

(***************************************************************************)
(* C3 as stated: for any sixteen-word buffer Q, converting Q to an         *)
(* extended point and back reproduces Q word for word.                     *)
(***************************************************************************)
C3_AnyBufferRoundTrip ==
    (op = "EdwardsPoint_from" /\ pc = "done") => ret = args.value

(***************************************************************************)
(* C3 amended: for any buffer Q whose two coordinates are canonically      *)
(* encoded (each an integer below the field modulus), converting Q to an   *)
(* extended point and back succeeds and reproduces Q word for word.        *)
(***************************************************************************)
C3_CanonicalRoundTrip ==
    (op = "EdwardsPoint_from" /\ pc \in {"done", "panic"} /\ CanonicalPoint(args.value))
        => (pc = "done" /\ ret = args.value)

C3_Witness ==
    /\ op = "EdwardsPoint_from"
    /\ pc = "done"
    /\ args.value = <<5, 0, 0, 0, 0, 0, 0, 0, 16, 0, 0, 0, 0, 0, 0, 0>>
    /\ conv = [X |-> 5, Y |-> 16, Z |-> 1, T |-> 12]
    /\ ret = args.value

(***************************************************************************)
(* C4: for any normalized extended point P (Z = 1, X * Y = T), converting  *)
(* P to an AffinePoint and back reproduces P exactly; the extended         *)
(* identity converts to the IDENTITY constant and back to itself.          *)
(***************************************************************************)
C4_ExtendedRoundTrip ==
    /\ (op = "AffinePoint_from" /\ pc = "done"
            /\ args.value.Z = 1 /\ args.value.T = (args.value.X * args.value.Y) % P)
        => ret = args.value
    /\ (op = "AffinePoint_from" /\ pc \in {"converted", "done"}
            /\ args.value = EdwardsPoint_identity)
        => conv = <<0, 0, 0, 0, 0, 0, 0, 0, 1, 0, 0, 0, 0, 0, 0, 0>>

C4_Witness ==
    /\ op = "AffinePoint_from"
    /\ pc = "done"
    /\ args.value = ED25519_BASEPOINT_POINT
    /\ conv = <<8, 0, 0, 0, 0, 0, 0, 0, 11, 0, 0, 0, 0, 0, 0, 0>>
    /\ ret = args.value

(***************************************************************************)
(* C5: converting an extended point to an AffinePoint panics exactly when  *)
(* Z is not one, producing no value; variable_base::mul and                *)
(* vartime_double_base::mul given such a point panic before any call of    *)
(* the host addition.                                                      *)
(***************************************************************************)
ConvertedPoint ==
    CASE op = "variable_base_mul" -> args.point
      [] op = "vartime_double_base_mul" -> args.A
      [] op = "AffinePoint_from" -> args.value

C5_PanicIffNotNormalized ==
    (op \in {"variable_base_mul", "vartime_double_base_mul", "AffinePoint_from"})
        => /\ (ConvertedPoint.Z # 1)
                => (pc = "panic" /\ syscalls = 0 /\ ret = Unset /\ conv = Unset
                        /\ res = Unset /\ temp = Unset /\ temp_A = Unset)
           /\ (ConvertedPoint.Z = 1) => pc # "panic"

C5_Witness ==
    /\ op = "vartime_double_base_mul"
    /\ pc = "panic"
    /\ args.A = [X |-> 16, Y |-> 5, Z |-> 2, T |-> 6]
    /\ syscalls = 0

(***************************************************************************)
(* C6: every call of Pippenger::optional_multiscalar_mul, whatever the     *)
(* scalars and optional points (empty sequences included), ends in the     *)
(* "not supported" panic and returns no value.                             *)
(***************************************************************************)
C6_MultiscalarUnsupported ==
    (op = "optional_multiscalar_mul")
        => /\ pc = "panic"
           /\ msg = "not implemented: Pippenger is not supported yet for zkvm"
           /\ ret = Unset

C6_Witness ==
    /\ op = "optional_multiscalar_mul"
    /\ pc = "panic"
    /\ args.scalars = <<1, 0>>
    /\ args.points = <<Some(ED25519_BASEPOINT_POINT), None>>

(***************************************************************************)
(* C7 as stated: IDENTITY is x = 0, y = 1, and for any on-curve            *)
(* AffinePoint P, P += identity() leaves P as it was and                   *)
(* identity() += P yields P.                                               *)
(***************************************************************************)
IdentityPattern == IDENTITY = <<0, 0, 0, 0, 0, 0, 0, 0, 1, 0, 0, 0, 0, 0, 0, 0>>

C7_IdentityNeutral ==
    /\ IdentityPattern
    /\ (op = "add_assign" /\ pc = "done")
        => /\ (args.rhs = IDENTITY) => self = args.self
           /\ (args.self = IDENTITY) => self = args.rhs

(***************************************************************************)
(* C7 amended: IDENTITY is x = 0, y = 1, and for any canonically encoded   *)
(* on-curve AffinePoint P (each coordinate's words an integer below the    *)
(* field modulus), P += identity() leaves P as it was and                  *)
(* identity() += P yields P; identity() += identity() is identity().       *)
(***************************************************************************)
C7_IdentityNeutralCanonical ==
    /\ IdentityPattern
    /\ (op = "add_assign" /\ pc = "done")
        => /\ (args.rhs = IDENTITY /\ CanonicalPoint(args.self)) => self = args.self
           /\ (args.self = IDENTITY /\ CanonicalPoint(args.rhs)) => self = args.rhs

C7_Witness ==
    /\ op = "add_assign"
    /\ pc = "done"
    /\ args.rhs = IDENTITY
    /\ args.self = <<8, 0, 0, 0, 0, 0, 0, 0, 11, 0, 0, 0, 0, 0, 0, 0>>
    /\ self = args.self
    /\ syscalls = 1

(***************************************************************************)
(* C8: P.mul_by_pow_2(k) returns double() applied k times to a copy of P   *)
(* (P itself for k = 0) and leaves the receiver unchanged.                 *)
(***************************************************************************)
RECURSIVE DoubleTimes(_, _)
DoubleTimes(q, k) == IF k = 0 THEN q ELSE double(DoubleTimes(q, k - 1))

C8_MulByPow2 ==
    (op = "mul_by_pow_2")
        => /\ self = args.self
           /\ (pc = "done") => /\ ret = DoubleTimes(args.self, args.k)
                               /\ i = args.k
                               /\ (args.k = 0) => ret = args.self

C8_Witness ==
    /\ op = "mul_by_pow_2"
    /\ pc = "done"
    /\ args.k = 3
    /\ args.self = <<8, 0, 0, 0, 0, 0, 0, 0, 11, 0, 0, 0, 0, 0, 0, 0>>
    /\ ret = AffEnc(RefMul(8, BasePt))
    /\ ret # args.self
    /\ self = args.self

(***************************************************************************)
(* C9: in double_and_add, after the iteration of bit index n (from 0) the  *)
(* running value is point * 2^(n+1) and the accumulator is point * (the    *)
(* scalar's low n+1 bits); every iteration doubles the running value, and  *)
(* the accumulator changes only in an iteration whose bit is 1.            *)
(***************************************************************************)
C9_StateInvariant ==
    (op = "variable_base_mul" /\ pc \in {"loop", "done"} /\ i >= 1)
        => /\ temp = AffEnc(RefMul(Pow2(i), Aff(args.point)))
           /\ res = AffEnc(RefMul(args.scalar % Pow2(i), Aff(args.point)))

C9_StepProperty ==
    (op = "variable_base_mul" /\ pc = "loop" /\ i' = i + 1)
        => /\ Aff(EdwardsPoint_from(temp'))
                = RefAdd(Aff(EdwardsPoint_from(temp)), Aff(EdwardsPoint_from(temp)))
           /\ (res' # res) => ((args.scalar \div Pow2(i)) % 2 = 1)

C9_LoopInvariant == [](C9_StateInvariant) /\ [][C9_StepProperty]_vars

C9_Witness ==
    /\ op = "variable_base_mul"
    /\ pc = "loop"
    /\ i = 3
    /\ args.scalar = 13
    /\ args.point = ED25519_BASEPOINT_POINT
    /\ res = AffEnc(RefMul(5, BasePt))
    /\ temp = AffEnc(RefMul(8, BasePt))

(***************************************************************************)
(* C10: when the two bit sequences differ in length, double_and_add_base   *)
(* iterates min(len a, len b) times, does not fail, and returns            *)
(* (a's low min bits) * A + (b's low min bits) * B; when the lengths are   *)
(* equal no bit of either scalar is dropped.                               *)
(***************************************************************************)
C10_LockStepTruncation ==
    (op = "vartime_double_base_mul" /\ args.A.Z = 1)
        => /\ pc # "panic"
           /\ i <= Min(Len(a_bits), Len(b_bits))
           /\ (pc = "done")
                => LET m == Min(Len(a_bits), Len(b_bits))
                   IN  /\ i = m
                       /\ ret = Ext(RefAdd(RefMul(BitsValue(a_bits) % Pow2(m), Aff(args.A)),
                                           RefMul(BitsValue(b_bits) % Pow2(m), BasePt)))
                       /\ (Len(a_bits) = Len(b_bits))
                            => ret = Ext(RefAdd(RefMul(BitsValue(a_bits), Aff(args.A)),
                                                RefMul(BitsValue(b_bits), BasePt)))

C10_Witness ==
    /\ op = "vartime_double_base_mul"
    /\ pc = "done"
    /\ a_bits = <<1, 0, 1>>
    /\ b_bits = <<1>>
    /\ args.A = ED25519_BASEPOINT_POINT
    /\ i = 1
    /\ ret = Ext(RefMul(2, BasePt))
    /\ ret # Ext(RefMul(6, BasePt))
====
